---- MODULE Spec2Model ----
(***************************************************************************)
(* The Chat component of chat-dh (components/Chat/Chat.tsx) as a state     *)
(* machine: the shared session context (messages, loading, iframeLoading), *)
(* the component's own state (messageLoading, chatAbortControllerRef), the *)
(* prompt bus, and the chat API calls that sendMessage is awaiting.        *)
(*                                                                         *)
(* JavaScript runs each handler, and each continuation after an await, to  *)
(* completion, and React re-renders and flushes the effects before the     *)
(* next event is handled: one action is one handler (or one continuation)  *)
(* together with the effect of lines 35-45 that its state changes cause.   *)
(* A Message content that is plain text (a JS string, which has no .status)*)
(* is the record [text |-> s]; a MessageContent is a record with a status  *)
(* field.  analyticsService.buttonClick is fire-and-forget and changes no  *)
(* state of the component, so it has no variable.                          *)
(***************************************************************************)
EXTENDS Integers, Sequences, FiniteSets, TLC

\* Bound of the model: the number of sendMessage calls of one behaviour.
MaxSends == 2

\* The texts a user (or the prompt bus) may send.
Texts == {"a", "b"}

\* chatAbortControllerRef.current before the first send (useRef(), line 28).
NoController == 0

\* The empty prompt-bus slot (setPrompt(null), line 153).
NoPrompt == "null"

VARIABLES
  messages,                \* useChat().messages: the Conversation
  loading,                 \* useChat().loading: the overall indicator
  iframeLoading,           \* useChat().iframeLoading
  messageLoading,          \* useState(false), line 29: the in-flight flag
  prompt,                  \* usePrompt().prompt: the prompt-bus slot
  chatAbortControllerRef,  \* id of the AbortController held by the ref
  aborted,                 \* ids of the AbortControllers whose abort() ran
  calls,                   \* the apiService.chat calls being awaited
  nextId,                  \* id of the next sendMessage call
  last                     \* history: the handler that ran last

vars == <<messages, loading, iframeLoading, messageLoading, prompt,
          chatAbortControllerRef, aborted, calls, nextId, last>>

----------------------------------------------------------------------------
\* Messages and the pure transformations of sendMessage

\* lines 49-52
NewMessage(newUserMessage) ==
  [role |-> "user", content |-> [text |-> newUserMessage]]

\* line 53
UpdatedMessages(msgs, newUserMessage) ==
  Append(msgs, NewMessage(newUserMessage))

\* lines 59-64
Placeholder ==
  [role |-> "assistant", content |-> [status |-> "loading"]]

\* Mutant of WithPlaceholder: no placeholder is appended.
WithoutPlaceholder(updatedMessages) ==
  updatedMessages

\* lines 57-65: the argument of setMessages
WithPlaceholder(updatedMessages) ==
  Append(updatedMessages, Placeholder)

\* (message.content as MessageContent).status, lines 83 and 110
Status(content) ==
  IF "status" \in DOMAIN content THEN content.status ELSE "undefined"

IsLoading(message) ==
  Status(message.content) = "loading"

\* Number of entries of msgs in loading status.
NumLoading(msgs) ==
  Cardinality({i \in DOMAIN msgs : IsLoading(msgs[i])})

\* lines 92-107: messageText
MessageText(isAbort) ==
  IF isAbort THEN "User has cancelled the request."
  ELSE "Something went wrong. Please try again later."

\* lines 113-116
ErrorContent(messageText) ==
  [status |-> "error", generated_text |-> messageText]

\* Mutant of ReplaceWithResponse: only the first loading entry is replaced.
ReplaceFirstWithResponse(prevMessages, chatResponse) ==
  [i \in DOMAIN prevMessages |->
     IF /\ IsLoading(prevMessages[i])
        /\ \A j \in 1..(i - 1) : ~IsLoading(prevMessages[j])
     THEN [role |-> "assistant", content |-> chatResponse]
     ELSE prevMessages[i]]

\* lines 81-90: the updater given to setMessages on success
ReplaceWithResponse(prevMessages, chatResponse) ==
  [i \in DOMAIN prevMessages |->
     IF IsLoading(prevMessages[i])
     THEN [role |-> "assistant", content |-> chatResponse]
     ELSE prevMessages[i]]

\* Mutant of ReplaceWithError: the catch branch leaves the entries alone.
KeepOnError(prevMessages, messageText) ==
  prevMessages

\* lines 108-120: the updater given to setMessages in the catch branch
ReplaceWithError(prevMessages, messageText) ==
  [i \in DOMAIN prevMessages |->
     IF IsLoading(prevMessages[i])
     THEN [role |-> "assistant", content |-> ErrorContent(messageText)]
     ELSE prevMessages[i]]

\* Mutant of LoadingEffect: the indicator follows the in-flight flag alone.
LoadingEffectMessageOnly(mLoading, iLoading) ==
  mLoading

\* lines 37-41: the value the effect gives to setLoading
LoadingEffect(mLoading, iLoading) ==
  IF ~mLoading /\ ~iLoading THEN FALSE ELSE TRUE

\* lines 35-45: the effect runs when one of its dependencies changed
AfterEffect(mLoading, iLoading) ==
  IF <<mLoading, iLoading>> # <<messageLoading, iframeLoading>>
  THEN LoadingEffect(mLoading, iLoading)
  ELSE loading

----------------------------------------------------------------------------
\* The chat API (services/api) and isAbortError (utils/api)

\* A response of apiService.chat to call id: {status, generated_text,
\* viz_id?, id}; the response id tells the responses of two calls apart.
ChatResponses(id) ==
  { [status |-> "ok", generated_text |-> "Hello", id |-> id],
    [status |-> "ok", generated_text |-> "Chart", id |-> id, viz_id |-> "v"] }

\* chatResponse?.viz_id, line 72
HasVizId(chatResponse) == "viz_id" \in DOMAIN chatResponse

\* How an awaited call may end: once its signal is aborted it rejects with
\* the cancellation error; otherwise it returns a response or fails.
Rejections(call) ==
  IF call.signal \in aborted THEN {"AbortError"} ELSE {"Error"}

CanReturn(call) == call.signal \notin aborted

isAbortError(e) == e = "AbortError"

NoContent == [status |-> "none"]

----------------------------------------------------------------------------
Init ==
  /\ messages = <<>>
  /\ loading = FALSE
  /\ iframeLoading = FALSE
  /\ messageLoading = FALSE
  /\ prompt = NoPrompt
  /\ chatAbortControllerRef = NoController
  /\ aborted = {}
  /\ calls = {}
  /\ nextId = 1
  /\ last = [op |-> "init", id |-> 0, content |-> NoContent]

\* Mutant of sendMessage: the AbortController held by the ref is reused.
sendMessageReusesController(newUserMessage, isExample) ==
  /\ nextId <= MaxSends
  /\ LET updatedMessages == UpdatedMessages(messages, newUserMessage)
         abortController == IF chatAbortControllerRef = NoController
                            THEN nextId ELSE chatAbortControllerRef
     IN /\ chatAbortControllerRef' = abortController
        /\ messageLoading' = TRUE
        /\ messages' = WithPlaceholder(updatedMessages)
        /\ calls' = calls \cup
             {[id |-> nextId, newUserMessage |-> newUserMessage,
               isExample |-> isExample, updatedMessages |-> updatedMessages,
               signal |-> abortController]}
        /\ loading' = AfterEffect(TRUE, iframeLoading)
        /\ nextId' = nextId + 1
        /\ last' = [op |-> "send", id |-> nextId, content |-> NoContent]
        /\ UNCHANGED <<iframeLoading, aborted>>

\* lines 48-71: sendMessage up to the await of apiService.chat
sendMessage(newUserMessage, isExample) ==
  /\ nextId <= MaxSends
  /\ LET updatedMessages == UpdatedMessages(messages, newUserMessage)
         abortController == nextId
     IN /\ chatAbortControllerRef' = abortController
        /\ messageLoading' = TRUE
        /\ messages' = WithPlaceholder(updatedMessages)
        /\ calls' = calls \cup
             {[id |-> nextId, newUserMessage |-> newUserMessage,
               isExample |-> isExample, updatedMessages |-> updatedMessages,
               signal |-> abortController]}
        /\ loading' = AfterEffect(TRUE, iframeLoading)
        /\ nextId' = nextId + 1
        /\ last' = [op |-> "send", id |-> nextId, content |-> NoContent]
        /\ UNCHANGED <<iframeLoading, aborted>>

\* lines 166 and 198: <ChatInput onSend={sendMessage} />, in both views
Send ==
  \E t \in Texts :
    /\ sendMessage(t, FALSE)
    /\ UNCHANGED prompt

\* lines 159-163 and 128-133: the kickoff view's onExampleClick
ExampleClick ==
  \E t \in Texts :
    /\ Len(messages) = 0
    /\ sendMessage(t, TRUE)
    /\ UNCHANGED prompt

\* The prompt bus (context/prompt): another component fills the slot.
SetPrompt ==
  \E t \in Texts :
    /\ prompt = NoPrompt
    /\ nextId <= MaxSends
    /\ prompt' = t
    /\ last' = [op |-> "setPrompt", id |-> 0, content |-> NoContent]
    /\ UNCHANGED <<messages, loading, iframeLoading, messageLoading,
                   chatAbortControllerRef, aborted, calls, nextId>>

\* Mutant of PromptEffect: the slot is not cleared after the send.
PromptEffectKeepsPrompt ==
  /\ prompt # NoPrompt
  /\ sendMessage(prompt, TRUE)
  /\ UNCHANGED prompt

\* lines 150-155: the effect on prompt
PromptEffect ==
  /\ prompt # NoPrompt
  /\ sendMessage(prompt, TRUE)
  /\ prompt' = NoPrompt

\* lines 72-90 and 121-123: the await returned chatResponse
ChatReturn(call, chatResponse) ==
  /\ CanReturn(call)
  /\ calls' = calls \ {call}
  /\ iframeLoading' = IF HasVizId(chatResponse) THEN TRUE ELSE iframeLoading
  /\ messages' = ReplaceWithResponse(messages, chatResponse)
  /\ messageLoading' = FALSE
  /\ loading' = AfterEffect(FALSE, iframeLoading')
  /\ last' = [op |-> "return", id |-> call.id, content |-> chatResponse]
  /\ UNCHANGED <<prompt, chatAbortControllerRef, aborted, nextId>>

\* Mutant of ChatReject: the in-flight flag is cleared on success only.
ChatRejectKeepsFlag(call, e) ==
  /\ calls' = calls \ {call}
  /\ messages' = ReplaceWithError(messages, MessageText(isAbortError(e)))
  /\ last' = [op |-> IF isAbortError(e) THEN "cancelled" ELSE "failed",
              id |-> call.id,
              content |-> ErrorContent(MessageText(isAbortError(e)))]
  /\ UNCHANGED <<messageLoading, loading, iframeLoading, prompt,
                 chatAbortControllerRef, aborted, nextId>>

\* lines 91-123: the await threw e
ChatReject(call, e) ==
  /\ calls' = calls \ {call}
  /\ messages' = ReplaceWithError(messages, MessageText(isAbortError(e)))
  /\ messageLoading' = FALSE
  /\ loading' = AfterEffect(FALSE, iframeLoading)
  /\ last' = [op |-> IF isAbortError(e) THEN "cancelled" ELSE "failed",
              id |-> call.id,
              content |-> ErrorContent(MessageText(isAbortError(e)))]
  /\ UNCHANGED <<iframeLoading, prompt, chatAbortControllerRef, aborted,
                 nextId>>

ChatReturns ==
  \E call \in calls : \E chatResponse \in ChatResponses(call.id) :
    ChatReturn(call, chatResponse)

ChatRejects ==
  \E call \in calls : \E e \in Rejections(call) :
    ChatReject(call, e)

\* The awaited call id ends, one way or the other.
Completes(id) ==
  \E call \in calls :
    /\ call.id = id
    /\ \/ \E chatResponse \in ChatResponses(id) : ChatReturn(call, chatResponse)
       \/ \E e \in Rejections(call) : ChatReject(call, e)

\* Mutant of handleReset: the Conversation is not cleared.
handleResetKeepsMessages ==
  /\ iframeLoading' = FALSE
  /\ messageLoading' = FALSE
  /\ loading' = AfterEffect(FALSE, FALSE)
  /\ last' = [op |-> "reset", id |-> 0, content |-> NoContent]
  /\ UNCHANGED <<messages, prompt, chatAbortControllerRef, aborted, calls,
                 nextId>>

\* lines 135-142
handleReset ==
  /\ messages' = <<>>
  /\ iframeLoading' = FALSE
  /\ messageLoading' = FALSE
  /\ loading' = AfterEffect(FALSE, FALSE)
  /\ last' = [op |-> "reset", id |-> 0, content |-> NoContent]
  /\ UNCHANGED <<prompt, chatAbortControllerRef, aborted, calls, nextId>>

\* lines 159 and 177-195: the New Chat button is rendered when the
\* Conversation is not empty and loading is false
NewChatClick ==
  /\ Len(messages) # 0
  /\ ~loading
  /\ handleReset

\* line 145: chatAbortControllerRef.current.abort()
Abort(ref, abortedSet) ==
  IF ref # NoController THEN abortedSet \cup {ref} ELSE abortedSet

\* Mutant of handleAbort: the handler finalizes the placeholder itself.
handleAbortFinalizes ==
  /\ aborted' = Abort(chatAbortControllerRef, aborted)
  /\ messages' = ReplaceWithError(messages, MessageText(TRUE))
  /\ iframeLoading' = FALSE
  /\ messageLoading' = FALSE
  /\ loading' = AfterEffect(FALSE, FALSE)
  /\ last' = [op |-> "abort", id |-> 0, content |-> NoContent]
  /\ UNCHANGED <<prompt, chatAbortControllerRef, calls, nextId>>

\* Mutant of handleAbort: the iframe-loading flag is not cleared.
handleAbortKeepsIframe ==
  /\ aborted' = Abort(chatAbortControllerRef, aborted)
  /\ messageLoading' = FALSE
  /\ loading' = AfterEffect(FALSE, iframeLoading)
  /\ last' = [op |-> "abort", id |-> 0, content |-> NoContent]
  /\ UNCHANGED <<messages, iframeLoading, prompt, chatAbortControllerRef,
                 calls, nextId>>

\* lines 144-148
handleAbort ==
  /\ aborted' = Abort(chatAbortControllerRef, aborted)
  /\ iframeLoading' = FALSE
  /\ messageLoading' = FALSE
  /\ loading' = AfterEffect(FALSE, FALSE)
  /\ last' = [op |-> "abort", id |-> 0, content |-> NoContent]
  /\ UNCHANGED <<messages, prompt, chatAbortControllerRef, calls, nextId>>

\* lines 159 and 177-185: the Stop Generating button is rendered when the
\* Conversation is not empty and loading is true
StopClick ==
  /\ Len(messages) # 0
  /\ loading
  /\ handleAbort

\* The embedded visualization finished loading (ChatMessage's iframe).
IframeLoaded ==
  /\ iframeLoading
  /\ iframeLoading' = FALSE
  /\ loading' = AfterEffect(messageLoading, FALSE)
  /\ last' = [op |-> "iframeLoaded", id |-> 0, content |-> NoContent]
  /\ UNCHANGED <<messages, messageLoading, prompt, chatAbortControllerRef,
                 aborted, calls, nextId>>

\* The component as the user drives it through the rendered controls.
Next ==
  \/ Send
  \/ ExampleClick
  \/ SetPrompt
  \/ PromptEffect
  \/ ChatReturns
  \/ ChatRejects
  \/ NewChatClick
  \/ StopClick
  \/ IframeLoaded

Spec == Init /\ [][Next]_vars

\* Every awaited chat API call eventually returns or fails.
FairSpec == Spec /\ \A id \in 1..MaxSends : WF_vars(Completes(id))

\* The handlers called in any state, whatever the rendered controls allow.
HandlerNext ==
  \/ Send
  \/ ExampleClick
  \/ SetPrompt
  \/ PromptEffect
  \/ ChatReturns
  \/ ChatRejects
  \/ handleReset
  \/ handleAbort
  \/ IframeLoaded

HandlerSpec == Init /\ [][HandlerNext]_vars

----------------------------------------------------------------------------
\* Properties

\* The handlers that end a sendMessage call.
Resolved == {"return", "cancelled", "failed"}

\* The contents a placeholder may be resolved to: a response of the chat
\* API, the cancellation notice, the generic failure notice.
TerminalContents ==
  UNION {ChatResponses(id) : id \in 1..MaxSends}
    \cup {[status |-> "error",
           generated_text |-> "User has cancelled the request."],
          [status |-> "error",
           generated_text |-> "Something went wrong. Please try again later."]}

\* The positions a Conversation of MaxSends sends may have.
Positions == 1..(2 * MaxSends)

LoadingAt(i) == i \in DOMAIN messages /\ IsLoading(messages[i])

LastMessage == messages[Len(messages)]

\* C1: for all sequences of sendMessage calls (also one issued while an
\* earlier call is still awaited, and interleaved with handleAbort and
\* handleReset) the Conversation never holds more than one loading entry.
C1_AtMostOneLoading ==
  NumLoading(messages) <= 1

C3_NoLoadingAfterResolve ==
  last.op \in Resolved => NumLoading(messages) = 0

\* C3 witness: a call resolved while another call is still awaited and the
\* Conversation holds the entries of both sends.
C3_Witness ==
  /\ last.op \in Resolved
  /\ calls # {}
  /\ Len(messages) = 4

\* C4: whenever a sendMessage call is outstanding the Conversation holds
\* exactly one loading placeholder.
C4_ExactlyOnePlaceholder ==
  calls # {} => NumLoading(messages) = 1

\* C5: at most one chat API call issued by sendMessage is outstanding.
C5_AtMostOneInFlight ==
  Cardinality(calls) <= 1

\* C6: when the chat API call of a sendMessage returned response R, the final
\* Message of the Conversation is the assistant Message with content R.
C6_SuccessContent ==
  (last.op = "return" /\ Len(messages) > 0) =>
    LastMessage = [role |-> "assistant", content |-> last.content]

\* C7: when the chat API call of a sendMessage was rejected by cancellation,
\* the final Message of the Conversation is the assistant Message with the
\* cancellation notice.
C7_CancelContent ==
  (last.op = "cancelled" /\ Len(messages) > 0) =>
    LastMessage =
      [role |-> "assistant",
       content |-> [status |-> "error",
                    generated_text |-> "User has cancelled the request."]]

\* C8: when the chat API call of a sendMessage was rejected by another error,
\* the final Message of the Conversation is the assistant Message with the
\* generic failure notice, and sendMessage ended normally (its finally
\* block ran and the call is no longer awaited).
C8_FailureContent ==
  (last.op = "failed" /\ Len(messages) > 0) =>
    /\ LastMessage =
         [role |-> "assistant",
          content |->
            [status |-> "error",
             generated_text |->
               "Something went wrong. Please try again later."]]
    /\ \A call \in calls : call.id # last.id

\* C9: handleReset, called in any state, yields an empty Conversation with
\* messageLoading and iframeLoading false.
C9_ResetClears ==
  last.op = "reset" =>
    /\ messages = <<>>
    /\ ~messageLoading
    /\ ~iframeLoading

\* C9 witness: handleReset ran while a request is in flight.
C9_Witness ==
  /\ last.op = "reset"
  /\ calls # {}
  /\ messages = <<>>

\* C10: handleAbort called when no request is outstanding changes nothing
\* but the two flags, which become false (and the overall indicator that
\* follows them); called again right after, it changes nothing at all.
C10_AbortWhenIdle ==
  [][(calls = {} /\ last'.op = "abort") =>
       /\ UNCHANGED <<messages, prompt, chatAbortControllerRef, calls, nextId>>
       /\ ~messageLoading'
       /\ ~iframeLoading'
       /\ aborted' \subseteq aborted \cup {chatAbortControllerRef}
       /\ last.op = "abort" => UNCHANGED vars]_vars

\* C10 witness: handleAbort ran with the stale token of a completed request.
C10_Witness ==
  /\ last.op = "abort"
  /\ calls = {}
  /\ chatAbortControllerRef # NoController
  /\ chatAbortControllerRef \in aborted
  /\ Len(messages) > 0

\* The calls a step starts.
NewCalls == calls' \ calls

\* C11: filling the prompt-bus slot triggers exactly one sendMessage with that
\* text and isExample = TRUE, and the slot is empty afterwards: the step that
\* consumes the slot starts exactly one such call, and an example send in the
\* conversation view (which only the prompt effect makes) always consumes a
\* filled slot, so the renders that follow cannot send for it again.
C11_PromptSendsOnce ==
  [][/\ (prompt # NoPrompt /\ prompt' # prompt) =>
          /\ prompt' = NoPrompt
          /\ Cardinality(NewCalls) = 1
          /\ \A c \in NewCalls : c.newUserMessage = prompt /\ c.isExample
     /\ \A c \in NewCalls :
          (c.isExample /\ Len(messages) > 0) =>
            /\ prompt # NoPrompt
            /\ prompt' = NoPrompt
            /\ c.newUserMessage = prompt]_vars

\* C11 witness: the prompt effect sent the prompt as an example in the
\* conversation view and left the slot empty.
C11_Witness ==
  /\ last.op = "send"
  /\ prompt = NoPrompt
  /\ \E c \in calls :
       c.id = last.id /\ c.isExample /\ Len(c.updatedMessages) > 1

\* C12: once the effect that follows a change of messageLoading or
\* iframeLoading has run, loading equals (messageLoading OR iframeLoading).
C12_LoadingIsEitherFlag ==
  loading = (messageLoading \/ iframeLoading)

\* C12 witness: the request returned a visualization, so the in-flight flag
\* is false, the iframe flag true and the indicator true.
C12_Witness ==
  /\ last.op = "return"
  /\ ~messageLoading
  /\ iframeLoading
  /\ loading

\* The most recent loading entry of the Conversation (0 when there is none).
MostRecentLoading ==
  IF NumLoading(messages) = 0 THEN 0
  ELSE CHOOSE i \in DOMAIN messages :
         /\ IsLoading(messages[i])
         /\ \A j \in DOMAIN messages : IsLoading(messages[j]) => j <= i

\* C13: the Conversation is append-only except for the in-place replacement
\* of the most recent placeholder: apart from handleReset no step removes or
\* reorders entries, and a step changes at most the single most recent
\* loading entry, and only when a send completes.
C13_AppendOnly ==
  [][last'.op # "reset" =>
       /\ Len(messages') >= Len(messages)
       /\ \A i \in DOMAIN messages :
            \/ messages'[i] = messages[i]
            \/ /\ i = MostRecentLoading
               /\ last'.op \in Resolved]_vars

\* C14: in every terminal case of sendMessage (success, cancellation, other
\* failure) messageLoading is false right after the call ended.
C14_FlagClearedAtEnd ==
  last.op \in Resolved => ~messageLoading

\* C14 witness: a call failed while another call is still awaited.
C14_Witness ==
  /\ last.op = "failed"
  /\ calls # {}
  /\ ~messageLoading

\* handleAbort has signalled the request started last, which is still awaited.
AbortedInFlight ==
  /\ chatAbortControllerRef \in aborted
  /\ \E c \in calls : c.signal = chatAbortControllerRef

\* The step changes or removes the most recent loading entry.
PlaceholderChanges ==
  /\ MostRecentLoading # 0
  /\ \/ MostRecentLoading \notin DOMAIN messages'
     \/ messages'[MostRecentLoading] # messages[MostRecentLoading]

C16_FreshToken ==
  [][/\ last'.op = "abort" => aborted' \ aborted \subseteq {nextId - 1}
     /\ \A c \in NewCalls :
          /\ c.signal \notin aborted'
          /\ chatAbortControllerRef' = c.signal
          /\ \A d \in calls : d.signal # c.signal]_vars

\* C16 witness: a request was started after handleAbort signalled an earlier
\* one that is still awaited; the new request is not signalled.
C16_Witness ==
  /\ last.op = "send"
  /\ \E c \in calls : \E d \in calls :
       /\ c.id = last.id
       /\ c.signal \notin aborted
       /\ d.signal \in aborted

\* No handleReset has cleared the Conversation since the first send: every
\* send appended two entries, so call id appended its placeholder at 2 * id.
NeverReset == Len(messages) = 2 * (nextId - 1)

\* C17: the response or notice of a sendMessage call is placed in the
\* placeholder this call appended (the entry after its user message), a
\* response is written into no other entry, and no response is dropped
\* (handleReset apart).
C17_OwnPlaceholder ==
  (last.op \in Resolved /\ NeverReset) =>
    /\ messages[2 * last.id] =
         [role |-> "assistant", content |-> last.content]
    /\ last.op = "return" =>
         \A i \in DOMAIN messages :
           messages[i].content = last.content => i = 2 * last.id

\* C18: the conversation sendMessage passes to the chat API is the
\* Conversation as it stood at the call followed by the new user message,
\* and it holds no loading placeholder.
C18_ApiConversation ==
  /\ [][\A c \in NewCalls :
          c.updatedMessages =
            Append(messages, [role |-> "user",
                              content |-> [text |-> c.newUserMessage]])]_vars
  /\ [](\A c \in calls : NumLoading(c.updatedMessages) = 0)

\* C19: the Conversation has even length and alternates roles starting with
\* user: every user Message is directly followed by one assistant Message.
C19_Alternates ==
  /\ Len(messages) % 2 = 0
  /\ \A i \in DOMAIN messages :
       messages[i].role = IF i % 2 = 1 THEN "user" ELSE "assistant"

\* C19 witness: two sends were made and both placeholders were replaced.
C19_Witness ==
  /\ Len(messages) = 4
  /\ NumLoading(messages) = 0
  /\ calls = {}

\* C20: iframeLoading is true only if the Conversation holds an assistant
\* Message whose content carries a viz_id.
C20_IframeNeedsViz ==
  iframeLoading =>
    \E i \in DOMAIN messages :
      /\ messages[i].role = "assistant"
      /\ HasVizId(messages[i].content)

====
